---- MODULE Spec2Model ----
(***************************************************************************)
(* A model of lib/appscale_tools.py: the AppScaleTools verbs as sequential *)
(* programs over the local deployment metadata, the local file system and  *)
(* the remote collaborators (AppController, UserAppServer, RemoteHelper).  *)
(* One verb runs at a time (the tools are single-threaded); every call a   *)
(* verb makes to a collaborator is appended to trace, and a collaborator   *)
(* that can fail either returns or raises.                                 *)
(***************************************************************************)
EXTENDS Integers, Sequences, FiniteSets, TLC

(* ------------------------------ bounds --------------------------------- *)

\* The longest list of public addresses the controller reports.
MaxNodes == 3

\* The number of extracted application directories the disk has room for.
MaxTmpDirs == 2

\* The polls of remove_app that trace records; later ones leave no mark.
MaxPolls == 2

(* --------------------------- value domains ----------------------------- *)

Keynames == {"k1", "k2"}

AddrNames == <<"ip1", "ip2", "ip3", "ip4", "ip5">>

\* The public addresses of the machines: as many as a deployment has nodes.
Addrs == {AddrNames[i] : i \in 1..MaxNodes}

\* The address RemoteHelper.start_head_node brings the head node up at.
HeadAddrs == {AddrNames[1]}

\* The addresses AppControllerClient.get_serving_info can answer with.
ServingAddrs == {AddrNames[1], AddrNames[2]}

\* The roles a --ips layout can name; options.ips maps a role to an address.
Roles == <<"master", "appengine", "database">>

Absent == "-"

\* InfrastructureAgentFactory.VALID_AGENTS, the cloud infrastructures.
VALID_AGENTS == {"ec2", "euca"}

\* LocalState.DEFAULT_USER
DEFAULT_USER == "a@a.a"

Users == {DEFAULT_USER, "u1", "u2"}

None == "None"

NoMeta == [exists |-> FALSE, infrastructure |-> "-", head |-> "-"]

\* The exceptions the verbs raise themselves, and how a verb can end.
BadConfigurationException == "BadConfigurationException"

AppScaleException == "AppScaleException"

ShellException == "ShellException"

\* Any exception raised by a collaborator whose class the source does not name.
RemoteException == "Exception"

SystemExit1 == "SystemExit(1)"

Returned == "returned"

Running == "running"

Verbs == {"add_instances", "describe_instances", "gather_logs", "remove_app",
          "reset_password", "run_instances", "terminate_instances", "upload_app"}

(* ------------------------------ state ---------------------------------- *)

VARIABLES
  verb,           \* the verb being run (or last run)
  opts,           \* its options
  pc,             \* the statement the verb is at; "done" once it has ended
  outcome,        \* Running, Returned, or the exception that ended it
  trace,          \* the calls made so far in this invocation, <<name, argument>>
  meta,           \* keyname -> the locations file of the deployment
  tmpdirs,        \* the extracted application directories that exist
  paths,          \* the log directories that exist, <<location, subdirectory>>
  ips,            \* local: the list being iterated
  idx,            \* local: the position in that list
  file_location,  \* local: upload_app's application directory (0: options.file)
  created_dir,    \* local: upload_app's created_dir
  username,       \* local: the resolved user
  app_exists,     \* local: upload_app's app_exists
  public_ip,      \* local: run_instances' head node address
  serving,        \* local: upload_app's serving_host and serving_port
  app_running     \* whether the controller runs the application remove_app stops

vars == <<verb, opts, pc, outcome, trace, meta, tmpdirs, paths, ips, idx,
          file_location, created_dir, username, app_exists, public_ip, serving,
          app_running>>

\* The verb, its options, and what the controller does meanwhile.
invocation == <<verb, opts, app_running>>

disk == <<meta, tmpdirs, paths>>

locals == <<ips, idx, file_location, created_dir, username, app_exists, public_ip,
            serving>>

(* ----------------------------- options --------------------------------- *)

NoIps == [r \in 1..Len(Roles) |-> Absent]

BaseOptions ==
  [keyname |-> "k1", ips |-> NoIps, force |-> FALSE, infrastructure |-> "",
   layout |-> "valid", file |-> "app", app_id_valid |-> TRUE, test |-> FALSE,
   email |-> "", admin_user |-> "", admin_pass |-> "", location |-> "logs",
   confirm |-> FALSE]

\* The role maps --ips can give: each role absent or placed on an address.
IpsMaps == [1..Len(Roles) -> Addrs \cup {Absent}]

Options(v) ==
  CASE v = "add_instances" ->
         {[BaseOptions EXCEPT !.keyname = k, !.ips = m] :
            k \in Keynames, m \in IpsMaps}
    [] v = "run_instances" ->
         {[BaseOptions EXCEPT !.keyname = k, !.force = f, !.infrastructure = i,
                              !.layout = l, !.test = t, !.admin_user = u,
                              !.admin_pass = p] :
            k \in Keynames, f \in BOOLEAN, i \in {"", "euca"},
            l \in {"valid", "unsupported", "invalid"}, t \in BOOLEAN,
            u \in {"", "u1"}, p \in {"", "p1"}}
    [] v = "upload_app" ->
         {[BaseOptions EXCEPT !.keyname = k, !.file = f, !.app_id_valid = g,
                              !.test = t, !.email = e] :
            k \in Keynames, f \in {"app", "app.tar.gz"}, g \in BOOLEAN,
            t \in BOOLEAN, e \in {"", "u1"}}
    [] v = "remove_app" ->
         {[BaseOptions EXCEPT !.keyname = k, !.confirm = c] :
            k \in Keynames, c \in BOOLEAN}
    [] OTHER -> {[BaseOptions EXCEPT !.keyname = k] : k \in Keynames}

(* ----------------------------- helpers --------------------------------- *)

\* A verb's next statement: the calls evs were made and control is at l.
Goto(l, evs) ==
  /\ pc' = l
  /\ trace' = trace \o evs
  /\ outcome' = outcome

\* An exception leaves the verb: nothing in AppScaleTools catches it.
Raise(e, evs) ==
  /\ pc' = "done"
  /\ trace' = trace \o evs
  /\ outcome' = e

\* The last call of evs raises e, and e leaves the verb.
CallFails(e, evs) ==
  Raise(e, evs \o <<<<"raised", evs[Len(evs)][1]>>>>)

Return(evs) ==
  /\ pc' = "done"
  /\ trace' = trace \o evs
  /\ outcome' = Returned

\* LocalState.get_login_host / get_secret_key / get_from_yaml read the
\* locations file of the keyname, which must exist.
HasMeta(k) == meta[k].exists

get_login_host(k) == meta[k].head

get_infrastructure(k) == meta[k].infrastructure

\* The lists of public addresses a controller can report: every node once.
\* Addresses are names that nothing compares but for equality, so the nodes
\* of a deployment of n nodes are taken to be the first n addresses, the
\* head node first.
IpLists == {[i \in 1..n |-> AddrNames[i]] : n \in 0..MaxNodes}

(* ------------------------------ Init ----------------------------------- *)

\* A machine on which no deployment was started yet, and no verb running.
\* No verb is running.
NoVerb ==
  /\ verb = "none"
  /\ opts = BaseOptions
  /\ pc = "idle"
  /\ outcome = Returned
  /\ trace = <<>>
  /\ ips = <<>>
  /\ idx = 1
  /\ file_location = 0
  /\ created_dir = FALSE
  /\ username = None
  /\ app_exists = FALSE
  /\ public_ip = Absent
  /\ serving = Absent
  /\ app_running = FALSE

Init ==
  /\ NoVerb
  /\ meta = [k \in Keynames |-> NoMeta]
  /\ tmpdirs = {}
  /\ paths = {}

\* The operator calls the verb v with some options.
InvokeVerb(v) ==
  /\ pc = "idle"
  /\ verb' = v
  /\ opts' \in Options(v)
  /\ pc' = v
  /\ outcome' = Running
  /\ trace' = <<>>
  /\ app_running' = FALSE
  /\ UNCHANGED <<disk, locals>>

Invoke == \E v \in Verbs : InvokeVerb(v)

\* The process of the verb ends: what stays is what is on the disk.
Exit ==
  /\ pc = "done"
  /\ verb' = "none"
  /\ opts' = BaseOptions
  /\ pc' = "idle"
  /\ outcome' = Returned
  /\ trace' = <<>>
  /\ ips' = <<>>
  /\ idx' = 1
  /\ file_location' = 0
  /\ created_dir' = FALSE
  /\ username' = None
  /\ app_exists' = FALSE
  /\ public_ip' = Absent
  /\ serving' = Absent
  /\ app_running' = FALSE
  /\ UNCHANGED disk

(* ------------------------ describe_instances --------------------------- *)

\* lines 159-161: the head node and the secret key, from the locations file
describe_instances_login ==
  /\ pc = "describe_instances"
  /\ IF HasMeta(opts.keyname)
       THEN Goto("describe_ips", <<<<"get_login_host", opts.keyname>>,
                                    <<"get_secret_key", opts.keyname>>>>)
       ELSE CallFails(RemoteException, <<<<"get_login_host", opts.keyname>>>>)
  /\ UNCHANGED <<invocation, disk, locals>>

\* line 163: login_acc.get_all_public_ips()
describe_instances_ips ==
  /\ pc = "describe_ips"
  /\ \/ /\ ips' \in IpLists
        /\ Goto("describe_loop",
                <<<<"get_all_public_ips", get_login_host(opts.keyname)>>>>)
     \/ /\ CallFails(RemoteException,
                 <<<<"get_all_public_ips", get_login_host(opts.keyname)>>>>)
        /\ ips' = ips
  /\ UNCHANGED <<invocation, disk, idx, file_location, created_dir, username,
                 app_exists, public_ip, serving>>

\* describe_instances without the try/except of lines 166-169
describe_instances_status_mut ==
  /\ pc = "describe_loop"
  /\ idx <= Len(ips)
  /\ LET ip == ips[idx] IN
       \/ Goto("describe_loop",
               <<<<"log", ip>>, <<"get_status", ip>>, <<"log_status", ip>>>>)
       \/ CallFails(RemoteException, <<<<"log", ip>>, <<"get_status", ip>>>>)
  /\ idx' = idx + 1
  /\ UNCHANGED <<invocation, disk, ips, file_location, created_dir, username,
                 app_exists, public_ip, serving>>

\* lines 164-169: one iteration; a failing get_status is caught and warned
describe_instances_status ==
  /\ pc = "describe_loop"
  /\ idx <= Len(ips)
  /\ LET ip == ips[idx] IN
       \/ Goto("describe_loop",
               <<<<"log", ip>>, <<"get_status", ip>>, <<"log_status", ip>>>>)
       \/ Goto("describe_loop",
               <<<<"log", ip>>, <<"get_status", ip>>, <<"raised", "get_status">>,
                 <<"warn", ip>>>>)
  /\ idx' = idx + 1
  /\ UNCHANGED <<invocation, disk, ips, file_location, created_dir, username,
                 app_exists, public_ip, serving>>

\* lines 171-172: the loop has ended
describe_instances_success ==
  /\ pc = "describe_loop"
  /\ idx > Len(ips)
  /\ Return(<<<<"success", get_login_host(opts.keyname)>>>>)
  /\ UNCHANGED <<invocation, disk, locals>>

describe_instances ==
  \/ describe_instances_login
  \/ describe_instances_ips
  \/ describe_instances_status
  \/ describe_instances_success

(* --------------------------- add_instances ----------------------------- *)

\* options.ips.values(): the addresses of the roles that are given
values(m) == SelectSeq(m, LAMBDA a : a # Absent)

\* 'master' in options.ips.keys()
has_master(m) == \E r \in 1..Len(Roles) : Roles[r] = "master" /\ m[r] # Absent

\* add_instances without the check of lines 65-67
add_instances_master_mut ==
  /\ pc = "add_instances"
  /\ Goto("add_infrastructure", <<>>)
  /\ UNCHANGED <<invocation, disk, locals>>

\* lines 65-67: a master node cannot be added
add_instances_master ==
  /\ pc = "add_instances"
  /\ IF has_master(opts.ips)
       THEN Raise(BadConfigurationException, <<>>)
       ELSE Goto("add_infrastructure", <<>>)
  /\ UNCHANGED <<invocation, disk, locals>>

\* add_instances that probes no node: line 75 comparing with another name
add_instances_infrastructure_mut ==
  /\ pc = "add_infrastructure"
  /\ IF ~HasMeta(opts.keyname)
       THEN /\ CallFails(RemoteException, <<<<"NodeLayout", "-">>,
                                            <<"get_from_yaml", opts.keyname>>>>)
            /\ ips' = ips
       ELSE /\ ips' = IF get_infrastructure(opts.keyname) = "none"
                        THEN values(opts.ips) ELSE <<>>
            /\ Goto("add_ssh", <<<<"NodeLayout", "-">>,
                                 <<"get_from_yaml", opts.keyname>>>>)
  /\ UNCHANGED <<invocation, disk, idx, file_location, created_dir, username,
                 app_exists, public_ip, serving>>

\* lines 71-75: the layout of the new nodes, and the infrastructure of the
\* deployment from its locations file; the nodes of a virtualized cluster
\* ("xen") are probed over SSH
add_instances_infrastructure ==
  /\ pc = "add_infrastructure"
  /\ IF ~HasMeta(opts.keyname)
       THEN /\ CallFails(RemoteException, <<<<"NodeLayout", "-">>,
                                            <<"get_from_yaml", opts.keyname>>>>)
            /\ ips' = ips
       ELSE /\ ips' = IF get_infrastructure(opts.keyname) = "xen"
                        THEN values(opts.ips) ELSE <<>>
            /\ Goto("add_ssh", <<<<"NodeLayout", "-">>,
                                 <<"get_from_yaml", opts.keyname>>>>)
  /\ UNCHANGED <<invocation, disk, idx, file_location, created_dir, username,
                 app_exists, public_ip, serving>>

\* lines 76-78: RemoteHelper.ssh throws a ShellException if the key fails
add_instances_ssh ==
  /\ pc = "add_ssh"
  /\ idx <= Len(ips)
  /\ \/ Goto("add_ssh", <<<<"ssh", ips[idx]>>>>)
     \/ CallFails(ShellException, <<<<"ssh", ips[idx]>>>>)
  /\ idx' = idx + 1
  /\ UNCHANGED <<invocation, disk, ips, file_location, created_dir, username,
                 app_exists, public_ip, serving>>

\* lines 80-91: tell the AppController of the login node to start the roles
add_instances_start_roles ==
  /\ pc = "add_ssh"
  /\ idx > Len(ips)
  /\ LET evs == <<<<"log", "-">>, <<"get_login_host", opts.keyname>>,
                  <<"get_secret_key", opts.keyname>>,
                  <<"start_roles_on_nodes", get_login_host(opts.keyname)>>>>
     IN \/ Return(evs \o <<<<"success", "-">>>>)
        \/ CallFails(RemoteException, evs)
  /\ UNCHANGED <<invocation, disk, locals>>

add_instances ==
  \/ add_instances_master
  \/ add_instances_infrastructure
  \/ add_instances_ssh
  \/ add_instances_start_roles

(* ---------------------------- gather_logs ------------------------------ *)

\* gather_logs without the check of lines 186-188
gather_logs_location_mut ==
  /\ pc = "gather_logs"
  /\ Goto("gather_login", <<<<"os.path.exists", opts.location>>>>)
  /\ UNCHANGED <<invocation, disk, locals>>

\* lines 184-188: the place to store the logs must not exist
gather_logs_location ==
  /\ pc = "gather_logs"
  /\ IF <<opts.location, "">> \in paths
       THEN Raise(AppScaleException, <<<<"os.path.exists", opts.location>>>>)
       ELSE Goto("gather_login", <<<<"os.path.exists", opts.location>>>>)
  /\ UNCHANGED <<invocation, disk, locals>>

\* gather_logs making the directory of line 195 before the lookups of
\* lines 190-191
gather_logs_mkdir_mut ==
  /\ pc = "gather_login"
  /\ paths' = paths \cup {<<opts.location, "">>}
  /\ IF HasMeta(opts.keyname)
       THEN Goto("gather_ips", <<<<"os.mkdir", opts.location>>,
                                 <<"get_login_host", opts.keyname>>,
                                 <<"get_secret_key", opts.keyname>>>>)
       ELSE CallFails(RemoteException, <<<<"os.mkdir", opts.location>>,
                                         <<"get_login_host", opts.keyname>>>>)
  /\ UNCHANGED <<invocation, meta, tmpdirs, locals>>

\* lines 190-195: the controller of the login host, then the directory
gather_logs_mkdir ==
  /\ pc = "gather_login"
  /\ IF HasMeta(opts.keyname)
       THEN /\ Goto("gather_ips", <<<<"get_login_host", opts.keyname>>,
                                    <<"get_secret_key", opts.keyname>>,
                                    <<"os.mkdir", opts.location>>>>)
            /\ paths' = paths \cup {<<opts.location, "">>}
       ELSE /\ CallFails(RemoteException, <<<<"get_login_host", opts.keyname>>>>)
            /\ paths' = paths
  /\ UNCHANGED <<invocation, meta, tmpdirs, locals>>

\* line 197: acc.get_all_public_ips()
gather_logs_ips ==
  /\ pc = "gather_ips"
  /\ \/ /\ ips' \in IpLists
        /\ Goto("gather_loop",
                <<<<"get_all_public_ips", get_login_host(opts.keyname)>>>>)
     \/ /\ CallFails(RemoteException,
                     <<<<"get_all_public_ips", get_login_host(opts.keyname)>>>>)
        /\ ips' = ips
  /\ UNCHANGED <<invocation, disk, idx, file_location, created_dir, username,
                 app_exists, public_ip, serving>>

\* lines 198-202: one iteration; os.mkdir raises if the node's directory
\* exists, and an exception of scp_remote_to_local is not caught
gather_logs_scp ==
  /\ pc = "gather_loop"
  /\ idx <= Len(ips)
  /\ LET ip == ips[idx] IN
       IF <<opts.location, ip>> \in paths
         THEN /\ CallFails(RemoteException, <<<<"os.mkdir", ip>>>>)
              /\ paths' = paths
         ELSE /\ paths' = paths \cup {<<opts.location, ip>>}
              /\ \/ Goto("gather_loop",
                         <<<<"os.mkdir", ip>>, <<"scp_remote_to_local", ip>>>>)
                 \/ CallFails(RemoteException,
                         <<<<"os.mkdir", ip>>, <<"scp_remote_to_local", ip>>>>)
  /\ idx' = idx + 1
  /\ UNCHANGED <<invocation, meta, tmpdirs, ips, file_location, created_dir,
                 username, app_exists, public_ip, serving>>

\* lines 203-204: the loop has ended
gather_logs_success ==
  /\ pc = "gather_loop"
  /\ idx > Len(ips)
  /\ Return(<<<<"success", opts.location>>>>)
  /\ UNCHANGED <<invocation, disk, locals>>

gather_logs ==
  \/ gather_logs_location
  \/ gather_logs_mkdir
  \/ gather_logs_ips
  \/ gather_logs_scp
  \/ gather_logs_success

(* ----------------------------- remove_app ------------------------------ *)

\* lines 215-219: without --confirm the operator is asked, and any answer
\* but yes cancels the removal
remove_app_confirm ==
  /\ pc = "remove_app"
  /\ IF opts.confirm
       THEN Goto("remove_uaserver", <<>>)
       ELSE \/ Goto("remove_uaserver", <<<<"raw_input", "yes">>>>)
            \/ Raise(AppScaleException, <<<<"raw_input", "no">>>>)
  /\ UNCHANGED <<invocation, disk, locals>>

\* lines 221-226: the controller of the login host and the UserAppServer
remove_app_uaserver ==
  /\ pc = "remove_uaserver"
  /\ IF HasMeta(opts.keyname)
       THEN LET evs == <<<<"get_login_host", opts.keyname>>,
                         <<"get_secret_key", opts.keyname>>,
                         <<"get_uaserver_host", get_login_host(opts.keyname)>>>>
            IN \/ Goto("remove_exists", evs)
               \/ CallFails(RemoteException, evs)
       ELSE CallFails(RemoteException, <<<<"get_login_host", opts.keyname>>>>)
  /\ UNCHANGED <<invocation, disk, locals>>

\* remove_app without the check of lines 227-228
remove_app_exists_mut ==
  /\ pc = "remove_exists"
  /\ \/ /\ Goto("remove_stop", <<<<"does_app_exist", "True">>>>)
        /\ app_running' = TRUE
     \/ /\ Goto("remove_stop", <<<<"does_app_exist", "False">>>>)
        /\ app_running' = FALSE
     \/ /\ CallFails(RemoteException, <<<<"does_app_exist", "-">>>>)
        /\ app_running' = app_running
  /\ UNCHANGED <<verb, opts, disk, locals>>

\* lines 227-228: the application must exist; one that exists is running
remove_app_exists ==
  /\ pc = "remove_exists"
  /\ \/ /\ Goto("remove_stop", <<<<"does_app_exist", "True">>>>)
        /\ app_running' = TRUE
     \/ /\ Raise(AppScaleException, <<<<"does_app_exist", "False">>>>)
        /\ app_running' = FALSE
     \/ /\ CallFails(RemoteException, <<<<"does_app_exist", "-">>>>)
        /\ app_running' = app_running
  /\ UNCHANGED <<verb, opts, disk, locals>>

\* lines 230-231: acc.stop_app
remove_app_stop ==
  /\ pc = "remove_stop"
  /\ \/ /\ Goto("remove_poll", <<<<"stop_app", "-">>, <<"log", "-">>>>)
        /\ idx' = 0
     \/ /\ CallFails(RemoteException, <<<<"stop_app", "-">>>>)
        /\ idx' = idx
  /\ UNCHANGED <<invocation, disk, ips, file_location, created_dir, username,
                 app_exists, public_ip, serving>>

\* The controller shuts the application down, some time after stop_app.
controller_stops_app ==
  /\ pc = "remove_poll"
  /\ app_running
  /\ app_running' = FALSE
  /\ UNCHANGED <<verb, opts, pc, outcome, trace, disk, locals>>

\* lines 232-236, the application still runs: sleep SLEEP_TIME and ask again
remove_app_sleep ==
  /\ pc = "remove_poll"
  /\ app_running
  /\ idx' = IF idx < MaxPolls THEN idx + 1 ELSE idx
  /\ Goto("remove_poll",
          IF idx < MaxPolls
            THEN <<<<"is_app_running", "True">>, <<"time.sleep", "SLEEP_TIME">>>>
            ELSE <<>>)
  /\ UNCHANGED <<invocation, disk, ips, file_location, created_dir, username,
                 app_exists, public_ip, serving>>

\* remove_app leaving the loop of lines 232-236 after one poll, whatever
\* the answer
remove_app_done_mut ==
  /\ pc = "remove_poll"
  /\ Return(<<<<"is_app_running", IF app_running THEN "True" ELSE "False">>,
              <<"success", "-">>>>)
  /\ UNCHANGED <<invocation, disk, locals>>

\* lines 232-237, the application runs no more: leave the loop
remove_app_done ==
  /\ pc = "remove_poll"
  /\ ~app_running
  /\ Return(<<<<"is_app_running", "False">>, <<"success", "-">>>>)
  /\ UNCHANGED <<invocation, disk, locals>>

\* line 233: is_app_running raises
remove_app_poll_fails ==
  /\ pc = "remove_poll"
  /\ CallFails(RemoteException, <<<<"is_app_running", "-">>>>)
  /\ UNCHANGED <<invocation, disk, locals>>

remove_app ==
  \/ remove_app_confirm
  \/ remove_app_uaserver
  \/ remove_app_exists
  \/ remove_app_stop
  \/ remove_app_sleep
  \/ remove_app_done
  \/ remove_app_poll_fails

(* --------------------------- reset_password ---------------------------- *)

\* lines 248-250: the secret key of the deployment, and the user's
\* credentials from the terminal
reset_password_credentials ==
  /\ pc = "reset_password"
  /\ IF HasMeta(opts.keyname)
       THEN /\ username' \in Users
            /\ Goto("reset_uaserver", <<<<"get_secret_key", opts.keyname>>,
                                        <<"get_credentials", "-">>,
                                        <<"encrypt_password", "-">>>>)
       ELSE /\ username' = username
            /\ CallFails(RemoteException, <<<<"get_secret_key", opts.keyname>>>>)
  /\ UNCHANGED <<invocation, disk, ips, idx, file_location, created_dir,
                 app_exists, public_ip, serving>>

\* lines 252-255: acc.get_uaserver_host, outside the try
reset_password_uaserver ==
  /\ pc = "reset_uaserver"
  /\ LET evs == <<<<"get_login_host", opts.keyname>>,
                  <<"get_uaserver_host", get_login_host(opts.keyname)>>>>
     IN \/ Goto("reset_change", evs)
        \/ CallFails(RemoteException, evs)
  /\ UNCHANGED <<invocation, disk, locals>>

\* reset_password without the try/except of lines 257-264
reset_password_change_mut ==
  /\ pc = "reset_change"
  /\ \/ Return(<<<<"change_password", username>>, <<"success", "-">>>>)
     \/ CallFails(RemoteException, <<<<"change_password", username>>>>)
  /\ UNCHANGED <<invocation, disk, locals>>

\* lines 257-264: an exception of change_password is caught, warned about,
\* and the process exits with status 1
reset_password_change ==
  /\ pc = "reset_change"
  /\ \/ Return(<<<<"change_password", username>>, <<"success", "-">>>>)
     \/ Raise(SystemExit1, <<<<"change_password", username>>,
                             <<"raised", "change_password">>,
                             <<"warn", "-">>, <<"sys.exit", "1">>>>)
  /\ UNCHANGED <<invocation, disk, locals>>

reset_password ==
  \/ reset_password_credentials
  \/ reset_password_uaserver
  \/ reset_password_change

(* --------------------------- run_instances ----------------------------- *)

\* LocalState.ensure_appscale_isnt_running(keyname, force): a deployment that
\* is already running under the keyname is an error unless force is given.
ensure_appscale_isnt_running(k, force) == force \/ ~HasMeta(k)

\* LocalState.update_local_metadata: writes the locations file of the
\* keyname, with the infrastructure ("xen" for a virtualized cluster) and the
\* head node.
update_local_metadata(o, ip) ==
  [meta EXCEPT ![o.keyname] =
     [exists |-> TRUE,
      infrastructure |-> IF o.infrastructure = "" THEN "xen" ELSE o.infrastructure,
      head |-> ip]]

\* run_instances without the call of line 282
run_instances_ensure_mut ==
  /\ pc = "run_instances"
  /\ Goto("run_started", <<<<"make_appscale_directory", "-">>,
                           <<"ensure_appscale_isnt_running", opts.keyname>>>>)
  /\ UNCHANGED <<invocation, disk, locals>>

\* lines 281-282: the deployment must not be running already
run_instances_ensure ==
  /\ pc = "run_instances"
  /\ IF ensure_appscale_isnt_running(opts.keyname, opts.force)
       THEN Goto("run_started", <<<<"make_appscale_directory", "-">>,
                                  <<"ensure_appscale_isnt_running", opts.keyname>>>>)
       ELSE Raise(AppScaleException,
                  <<<<"make_appscale_directory", "-">>,
                    <<"ensure_appscale_isnt_running", opts.keyname>>>>)
  /\ UNCHANGED <<invocation, disk, locals>>

\* lines 284-292: announce the deployment, locally and to the remote log
run_instances_started ==
  /\ pc = "run_started"
  /\ Goto("run_layout", <<<<"log", opts.infrastructure>>,
                          <<"remote_log_tools_state", "started">>>>)
  /\ UNCHANGED <<invocation, disk, locals>>

\* run_instances with an invalid layout only warned about, like an
\* unsupported one
run_instances_layout_mut ==
  /\ pc = "run_layout"
  /\ IF opts.layout = "valid"
       THEN Goto("run_start_head_node", <<<<"NodeLayout", "-">>>>)
       ELSE Goto("run_start_head_node", <<<<"NodeLayout", "-">>, <<"warn", "-">>>>)
  /\ UNCHANGED <<invocation, disk, locals>>

\* lines 294-301: the node layout must be valid; an unsupported one is warned
run_instances_layout ==
  /\ pc = "run_layout"
  /\ CASE opts.layout = "invalid" ->
            Raise(BadConfigurationException, <<<<"NodeLayout", "-">>>>)
       [] opts.layout = "unsupported" ->
            Goto("run_start_head_node", <<<<"NodeLayout", "-">>, <<"warn", "-">>>>)
       [] OTHER ->
            Goto("run_start_head_node", <<<<"NodeLayout", "-">>>>)
  /\ UNCHANGED <<invocation, disk, locals>>

\* lines 303-306: RemoteHelper.start_head_node
run_instances_start_head_node ==
  /\ pc = "run_start_head_node"
  /\ \/ /\ public_ip' \in HeadAddrs
        /\ Goto("run_metadata1", <<<<"start_head_node", "-">>, <<"log", "-">>>>)
     \/ /\ public_ip' = public_ip
        /\ CallFails(RemoteException, <<<<"start_head_node", "-">>>>)
  /\ UNCHANGED <<invocation, disk, ips, idx, file_location, created_dir,
                 username, app_exists, serving>>

\* LocalState.update_local_metadata, then RemoteHelper.copy_local_metadata
\* to the head node, which can fail once the local file is written.
run_instances_persist(to) ==
  /\ meta' = update_local_metadata(opts, public_ip)
  /\ \/ Goto(to, <<<<"update_local_metadata", opts.keyname>>,
                   <<"copy_local_metadata", public_ip>>>>)
     \/ CallFails(RemoteException, <<<<"update_local_metadata", opts.keyname>>,
                                 <<"copy_local_metadata", public_ip>>>>)
  /\ UNCHANGED <<invocation, tmpdirs, paths, locals>>

\* run_instances without the persist of lines 308-313
run_instances_metadata1_mut ==
  /\ pc = "run_metadata1"
  /\ Goto("run_uaserver", <<>>)
  /\ UNCHANGED <<invocation, disk, locals>>

\* lines 308-313
run_instances_metadata1 ==
  /\ pc = "run_metadata1"
  /\ run_instances_persist("run_uaserver")

\* lines 315-317: acc.get_uaserver_host
run_instances_uaserver ==
  /\ pc = "run_uaserver"
  /\ \/ Goto("run_wait_uaserver", <<<<"get_secret_key", opts.keyname>>,
                                    <<"get_uaserver_host", public_ip>>>>)
     \/ CallFails(RemoteException, <<<<"get_secret_key", opts.keyname>>,
                                 <<"get_uaserver_host", public_ip>>>>)
  /\ UNCHANGED <<invocation, disk, locals>>

\* run_instances going on when the wait of lines 319-320 has failed
run_instances_wait_uaserver_mut ==
  /\ pc = "run_wait_uaserver"
  /\ Goto("run_metadata2", <<<<"sleep_until_port_is_open", "uaserver">>,
                              <<"raised", "sleep_until_port_is_open">>>>)
  /\ UNCHANGED <<invocation, disk, locals>>

\* lines 319-320: wait for the UserAppServer's port
run_instances_wait_uaserver ==
  /\ pc = "run_wait_uaserver"
  /\ \/ Goto("run_metadata2", <<<<"sleep_until_port_is_open", "uaserver">>>>)
     \/ CallFails(RemoteException, <<<<"sleep_until_port_is_open", "uaserver">>>>)
  /\ UNCHANGED <<invocation, disk, locals>>

\* lines 322-332
run_instances_metadata2 ==
  /\ pc = "run_metadata2"
  /\ run_instances_persist("run_credentials")

\* run_instances looking at --test before --admin_user and --admin_pass
run_instances_credentials_mut ==
  /\ pc = "run_credentials"
  /\ IF opts.test
       THEN /\ username' = DEFAULT_USER
            /\ Goto("run_create_user", <<<<"log", "default">>>>)
       ELSE IF opts.admin_user # "" /\ opts.admin_pass # ""
         THEN /\ username' = opts.admin_user
              /\ Goto("run_create_user", <<<<"log", "provided">>>>)
         ELSE \E u \in Users :
                /\ username' = u
                /\ Goto("run_create_user", <<<<"get_credentials", u>>>>)
  /\ UNCHANGED <<invocation, disk, ips, idx, file_location, created_dir,
                 app_exists, public_ip, serving>>

\* lines 334-341: the admin credentials
run_instances_credentials ==
  /\ pc = "run_credentials"
  /\ IF opts.admin_user # "" /\ opts.admin_pass # ""
       THEN /\ username' = opts.admin_user
            /\ Goto("run_create_user", <<<<"log", "provided">>>>)
       ELSE IF opts.test
         THEN /\ username' = DEFAULT_USER
              /\ Goto("run_create_user", <<<<"log", "default">>>>)
         ELSE \E u \in Users :
                /\ username' = u
                /\ Goto("run_create_user", <<<<"get_credentials", u>>>>)
  /\ UNCHANGED <<invocation, disk, ips, idx, file_location, created_dir,
                 app_exists, public_ip, serving>>

\* run_instances removing the keyname's files when the call of lines 343-344
\* fails
run_instances_create_user_mut ==
  /\ pc = "run_create_user"
  /\ \/ /\ Goto("run_set_admin", <<<<"create_user_accounts", username>>>>)
        /\ meta' = meta
     \/ /\ CallFails(RemoteException, <<<<"create_user_accounts", username>>>>)
        /\ meta' = [meta EXCEPT ![opts.keyname] = NoMeta]
  /\ UNCHANGED <<invocation, tmpdirs, paths, locals>>

\* lines 343-344: RemoteHelper.create_user_accounts
run_instances_create_user ==
  /\ pc = "run_create_user"
  /\ \/ Goto("run_set_admin", <<<<"create_user_accounts", username>>>>)
     \/ CallFails(RemoteException, <<<<"create_user_accounts", username>>>>)
  /\ UNCHANGED <<invocation, disk, locals>>

\* line 345: uaserver_client.set_admin_role
run_instances_set_admin ==
  /\ pc = "run_set_admin"
  /\ \/ Goto("run_wait_machines", <<<<"set_admin_role", username>>>>)
     \/ CallFails(RemoteException, <<<<"set_admin_role", username>>>>)
  /\ UNCHANGED <<invocation, disk, locals>>

\* line 347: RemoteHelper.wait_for_machines_to_finish_loading
run_instances_wait_machines ==
  /\ pc = "run_wait_machines"
  /\ \/ Goto("run_metadata3",
             <<<<"wait_for_machines_to_finish_loading", public_ip>>>>)
     \/ CallFails(RemoteException,
              <<<<"wait_for_machines_to_finish_loading", public_ip>>>>)
  /\ UNCHANGED <<invocation, disk, locals>>

\* lines 348-352
run_instances_metadata3 ==
  /\ pc = "run_metadata3"
  /\ run_instances_persist("run_wait_dashboard")

\* lines 354-355: wait for the dashboard's port on the login host
run_instances_wait_dashboard ==
  /\ pc = "run_wait_dashboard"
  /\ \/ Goto("run_finished", <<<<"get_login_host", opts.keyname>>,
                               <<"sleep_until_port_is_open", "dashboard">>>>)
     \/ CallFails(RemoteException, <<<<"get_login_host", opts.keyname>>,
                                 <<"sleep_until_port_is_open", "dashboard">>>>)
  /\ UNCHANGED <<invocation, disk, locals>>

\* lines 356-361
run_instances_finished ==
  /\ pc = "run_finished"
  /\ Return(<<<<"success", get_login_host(opts.keyname)>>,
              <<"remote_log_tools_state", "finished">>>>)
  /\ UNCHANGED <<invocation, disk, locals>>

run_instances ==
  \/ run_instances_ensure
  \/ run_instances_started
  \/ run_instances_layout
  \/ run_instances_start_head_node
  \/ run_instances_metadata1
  \/ run_instances_uaserver
  \/ run_instances_wait_uaserver
  \/ run_instances_metadata2
  \/ run_instances_credentials
  \/ run_instances_create_user
  \/ run_instances_set_admin
  \/ run_instances_wait_machines
  \/ run_instances_metadata3
  \/ run_instances_wait_dashboard
  \/ run_instances_finished

(* ------------------------ terminate_instances -------------------------- *)

\* LocalState.cleanup_appscale_files: removes the locations file (and the
\* secret key) of the keyname.
cleanup_appscale_files(k) == [meta EXCEPT ![k] = NoMeta]

\* terminate_instances without the check of lines 373-376
terminate_instances_check_mut ==
  /\ pc = "terminate_instances"
  /\ Goto("terminate_teardown", <<<<"os.path.exists", opts.keyname>>>>)
  /\ UNCHANGED <<invocation, disk, locals>>

\* lines 373-376: there must be a locations file for the keyname
terminate_instances_check ==
  /\ pc = "terminate_instances"
  /\ IF HasMeta(opts.keyname)
       THEN Goto("terminate_teardown", <<<<"os.path.exists", opts.keyname>>>>)
       ELSE Raise(AppScaleException, <<<<"os.path.exists", opts.keyname>>>>)
  /\ UNCHANGED <<invocation, disk, locals>>

\* The remote teardown the infrastructure of the deployment calls for.
teardown_call(k) ==
  IF get_infrastructure(k) \in VALID_AGENTS
    THEN <<"terminate_cloud_infrastructure", k>>
    ELSE <<"terminate_virtualized_cluster", k>>

\* lines 378-384: power off the cloud instances or stop the cluster's
\* services; an exception of either leaves terminate_instances
terminate_instances_teardown ==
  /\ pc = "terminate_teardown"
  /\ \/ Goto("terminate_cleanup", <<teardown_call(opts.keyname)>>)
     \/ CallFails(RemoteException, <<teardown_call(opts.keyname)>>)
  /\ UNCHANGED <<invocation, disk, locals>>

\* lines 386-387
terminate_instances_cleanup ==
  /\ pc = "terminate_cleanup"
  /\ meta' = cleanup_appscale_files(opts.keyname)
  /\ Return(<<<<"cleanup_appscale_files", opts.keyname>>, <<"success", "-">>>>)
  /\ UNCHANGED <<invocation, tmpdirs, paths, locals>>

terminate_instances ==
  \/ terminate_instances_check
  \/ terminate_instances_teardown
  \/ terminate_instances_cleanup

(* ----------------------------- upload_app ------------------------------ *)

\* TAR_GZ_REGEX (line 54): the file name ends in .tar.gz
TAR_GZ_REGEX(f) == f = "app.tar.gz"

\* The directory LocalState.extract_app_to_dir creates: one that is not there.
fresh_dir == CHOOSE d \in 1..MaxTmpDirs : d \notin tmpdirs

\* lines 401-407: a compressed application is extracted to a new directory
upload_app_extract ==
  /\ pc = "upload_app"
  /\ IF TAR_GZ_REGEX(opts.file)
       THEN IF Cardinality(tmpdirs) < MaxTmpDirs
              THEN /\ file_location' = fresh_dir
                   /\ created_dir' = TRUE
                   /\ tmpdirs' = tmpdirs \cup {fresh_dir}
                   /\ Goto("upload_config", <<<<"extract_app_to_dir", opts.file>>>>)
              ELSE /\ CallFails(RemoteException,
                                <<<<"extract_app_to_dir", opts.file>>>>)
                   /\ UNCHANGED <<file_location, created_dir, tmpdirs>>
       ELSE /\ file_location' = 0
            /\ created_dir' = FALSE
            /\ tmpdirs' = tmpdirs
            /\ Goto("upload_config", <<>>)
  /\ UNCHANGED <<invocation, meta, paths, ips, idx, username, app_exists,
                 public_ip, serving>>

\* lines 409-412: the application's id and runtime; the id must be valid
upload_app_config ==
  /\ pc = "upload_config"
  /\ LET evs == <<<<"get_app_id_from_app_config", "-">>,
                  <<"get_app_runtime_from_app_config", "-">>,
                  <<"validate_app_id", "-">>>>
     IN IF opts.app_id_valid
          THEN Goto("upload_uaserver", evs)
          ELSE CallFails(RemoteException, evs)
  /\ UNCHANGED <<invocation, disk, locals>>

\* lines 414-418: the controller of the login host and the UserAppServer
upload_app_uaserver ==
  /\ pc = "upload_uaserver"
  /\ IF HasMeta(opts.keyname)
       THEN LET evs == <<<<"get_login_host", opts.keyname>>,
                         <<"get_secret_key", opts.keyname>>,
                         <<"get_uaserver_host", get_login_host(opts.keyname)>>>>
            IN \/ Goto("upload_username", evs)
               \/ CallFails(RemoteException, evs)
       ELSE CallFails(RemoteException, <<<<"get_login_host", opts.keyname>>>>)
  /\ UNCHANGED <<invocation, disk, locals>>

\* upload_app looking at --email before --test
upload_app_username_mut ==
  /\ pc = "upload_username"
  /\ IF opts.email # ""
       THEN /\ username' = opts.email
            /\ Goto("upload_user", <<>>)
       ELSE IF opts.test
         THEN /\ username' = DEFAULT_USER
              /\ Goto("upload_user", <<>>)
         ELSE \E u \in Users :
                /\ username' = u
                /\ Goto("upload_user", <<<<"get_username_from_stdin", u>>>>)
  /\ UNCHANGED <<invocation, disk, ips, idx, file_location, created_dir,
                 app_exists, public_ip, serving>>

\* lines 420-425: the user who uploads
upload_app_username ==
  /\ pc = "upload_username"
  /\ IF opts.test
       THEN /\ username' = DEFAULT_USER
            /\ Goto("upload_user", <<>>)
       ELSE IF opts.email # ""
         THEN /\ username' = opts.email
              /\ Goto("upload_user", <<>>)
         ELSE \E u \in Users :
                /\ username' = u
                /\ Goto("upload_user", <<<<"get_username_from_stdin", u>>>>)
  /\ UNCHANGED <<invocation, disk, ips, idx, file_location, created_dir,
                 app_exists, public_ip, serving>>

\* lines 427-430: a user the UserAppServer does not know is created
upload_app_user ==
  /\ pc = "upload_user"
  /\ \/ Goto("upload_owner", <<<<"does_user_exist", username>>>>)
     \/ CallFails(RemoteException, <<<<"does_user_exist", username>>>>)
     \/ Goto("upload_owner", <<<<"does_user_exist", username>>,
                               <<"get_password_from_stdin", "-">>,
                               <<"create_user_accounts", username>>>>)
     \/ CallFails(RemoteException, <<<<"does_user_exist", username>>,
                                     <<"get_password_from_stdin", "-">>,
                                     <<"create_user_accounts", username>>>>)
  /\ UNCHANGED <<invocation, disk, locals>>

\* How the trace writes the answer of a call that returns a boolean.
Reported(b) == IF b THEN "True" ELSE "False"

\* upload_app without the owner check of lines 434-437
upload_app_owner_mut ==
  /\ pc = "upload_owner"
  /\ \E e \in BOOLEAN, app_admin \in Users \cup {None} :
       /\ app_exists' = e
       /\ Goto("upload_reserve", <<<<"does_app_exist", Reported(e)>>,
                                   <<"get_app_admin", app_admin>>>>)
  /\ UNCHANGED <<invocation, disk, ips, idx, file_location, created_dir,
                 username, public_ip, serving>>

\* lines 432-437: only the application's owner may upload it
upload_app_owner ==
  /\ pc = "upload_owner"
  /\ \/ /\ CallFails(RemoteException, <<<<"does_app_exist", "-">>>>)
        /\ app_exists' = app_exists
     \/ \E e \in BOOLEAN :
          /\ app_exists' = e
          /\ \/ CallFails(RemoteException, <<<<"does_app_exist", Reported(e)>>,
                                             <<"get_app_admin", "-">>>>)
             \/ \E app_admin \in Users \cup {None} :
                  IF app_admin # None /\ username # app_admin
                    THEN Raise(AppScaleException,
                               <<<<"does_app_exist", Reported(e)>>,
                                 <<"get_app_admin", app_admin>>>>)
                    ELSE Goto("upload_reserve",
                              <<<<"does_app_exist", Reported(e)>>,
                                <<"get_app_admin", app_admin>>>>)
  /\ UNCHANGED <<invocation, disk, ips, idx, file_location, created_dir,
                 username, public_ip, serving>>

\* upload_app with the test of line 439 turned round
upload_app_reserve_mut ==
  /\ pc = "upload_reserve"
  /\ IF ~app_exists
       THEN Goto("upload_copy", <<<<"log", "new version">>>>)
       ELSE \/ Goto("upload_copy", <<<<"log", "initial version">>,
                                     <<"reserve_app_id", username>>>>)
            \/ CallFails(RemoteException, <<<<"log", "initial version">>,
                                            <<"reserve_app_id", username>>>>)
  /\ UNCHANGED <<invocation, disk, locals>>

\* lines 439-443: the id of a new application is reserved
upload_app_reserve ==
  /\ pc = "upload_reserve"
  /\ IF app_exists
       THEN Goto("upload_copy", <<<<"log", "new version">>>>)
       ELSE \/ Goto("upload_copy", <<<<"log", "initial version">>,
                                     <<"reserve_app_id", username>>>>)
            \/ CallFails(RemoteException, <<<<"log", "initial version">>,
                                            <<"reserve_app_id", username>>>>)
  /\ UNCHANGED <<invocation, disk, locals>>

\* lines 445-446: RemoteHelper.copy_app_to_host
upload_app_copy ==
  /\ pc = "upload_copy"
  /\ \/ Goto("upload_done_uploading", <<<<"copy_app_to_host", "-">>>>)
     \/ CallFails(RemoteException, <<<<"copy_app_to_host", "-">>>>)
  /\ UNCHANGED <<invocation, disk, locals>>

\* line 448: acc.done_uploading
upload_app_done_uploading ==
  /\ pc = "upload_done_uploading"
  /\ \/ Goto("upload_update", <<<<"done_uploading", "-">>>>)
     \/ CallFails(RemoteException, <<<<"done_uploading", "-">>>>)
  /\ UNCHANGED <<invocation, disk, locals>>

\* line 449: acc.update
upload_app_update ==
  /\ pc = "upload_update"
  /\ \/ Goto("upload_serving", <<<<"update", "-">>>>)
     \/ CallFails(RemoteException, <<<<"update", "-">>>>)
  /\ UNCHANGED <<invocation, disk, locals>>

\* lines 451-459: a new version is given time to restart; where it serves
upload_app_serving ==
  /\ pc = "upload_serving"
  /\ LET evs == <<<<"log", "-">>>>
                \o (IF app_exists THEN <<<<"time.sleep", "20">>>> ELSE <<>>)
     IN \/ \E a \in ServingAddrs :
             /\ serving' = a
             /\ Goto("upload_wait", evs \o <<<<"get_serving_info", a>>>>)
        \/ /\ serving' = serving
           /\ CallFails(RemoteException, evs \o <<<<"get_serving_info", "-">>>>)
  /\ UNCHANGED <<invocation, disk, ips, idx, file_location, created_dir,
                 username, app_exists, public_ip>>

\* lines 460-463: wait for the application's port
upload_app_wait ==
  /\ pc = "upload_wait"
  /\ \/ Goto("upload_return", <<<<"sleep_until_port_is_open", serving>>,
                                <<"success", serving>>>>)
     \/ CallFails(RemoteException, <<<<"sleep_until_port_is_open", serving>>>>)
  /\ UNCHANGED <<invocation, disk, locals>>

\* lines 465-468: the extracted directory is removed and the address returned
upload_app_return ==
  /\ pc = "upload_return"
  /\ IF created_dir
       THEN /\ tmpdirs' = tmpdirs \ {file_location}
            /\ Return(<<<<"shutil.rmtree", "-">>, <<"return", serving>>>>)
       ELSE /\ tmpdirs' = tmpdirs
            /\ Return(<<<<"return", serving>>>>)
  /\ UNCHANGED <<invocation, meta, paths, locals>>

upload_app ==
  \/ upload_app_extract
  \/ upload_app_config
  \/ upload_app_uaserver
  \/ upload_app_username
  \/ upload_app_user
  \/ upload_app_owner
  \/ upload_app_reserve
  \/ upload_app_copy
  \/ upload_app_done_uploading
  \/ upload_app_update
  \/ upload_app_serving
  \/ upload_app_wait
  \/ upload_app_return

(* ------------------------------ Next ----------------------------------- *)

Next ==
  \/ Invoke
  \/ Exit
  \/ add_instances
  \/ describe_instances
  \/ gather_logs
  \/ remove_app
  \/ controller_stops_app
  \/ reset_password
  \/ run_instances
  \/ terminate_instances
  \/ upload_app

Spec == Init /\ [][Next]_vars

(* ------------------- remove_app on its own, and fair -------------------- *)

\* What run_instances can have left on the disk for a keyname: the
\* locations file update_local_metadata writes for the options of Options.
Deployments ==
  {[exists |-> TRUE, infrastructure |-> i, head |-> h] :
     i \in {"xen", "euca"}, h \in HeadAddrs}

\* No verb is running, and each keyname has a deployment or none.
RemoveInit ==
  /\ NoVerb
  /\ meta \in [Keynames -> Deployments \cup {NoMeta}]
  /\ tmpdirs = {}
  /\ paths = {}

RemoveNext ==
  \/ InvokeVerb("remove_app")
  \/ Exit
  \/ remove_app
  \/ controller_stops_app

\* The process of remove_app goes on running: once the controller answers
\* that the application runs no more, the poll of line 233 that reads the
\* answer is made.  Nothing makes the controller stop the application.
RemoveSpec == RemoveInit /\ [][RemoveNext]_vars /\ WF_vars(remove_app_done)

(* --------------------------- the trace --------------------------------- *)

\* The calls of the invocation to name.
Calls(name) == SelectSeq(trace, LAMBDA e : e[1] = name)

Called(name) == \E i \in 1..Len(trace) : trace[i][1] = name

\* The call name raised an exception.
RaisedBy(name) == \E i \in 1..Len(trace) : trace[i] = <<"raised", name>>

\* The calls that contact another machine: the AppController, the
\* UserAppServer, a node over SSH or SCP, the cloud, or the remote log.
RemoteCallNames ==
  {"ssh", "start_roles_on_nodes", "get_all_public_ips", "get_status",
   "scp_remote_to_local", "get_uaserver_host", "change_password",
   "remote_log_tools_state", "start_head_node", "copy_local_metadata",
   "sleep_until_port_is_open", "create_user_accounts", "set_admin_role",
   "wait_for_machines_to_finish_loading", "terminate_cloud_infrastructure",
   "terminate_virtualized_cluster", "does_user_exist", "does_app_exist",
   "get_app_admin", "reserve_app_id", "copy_app_to_host", "done_uploading",
   "update", "get_serving_info", "stop_app", "is_app_running"}

RemoteCalls == SelectSeq(trace, LAMBDA e : e[1] \in RemoteCallNames)

(* ------------------------------ claims --------------------------------- *)

\* C1: add_instances with a 'master' key in options.ips raises
\* BadConfigurationException, and has made no call at all when it does: no
\* SSH probe, no start_roles_on_nodes, no lookup in the locations file.
C1_MasterRejectedBeforeAnyCall ==
  (verb = "add_instances" /\ has_master(opts.ips)) =>
    /\ trace = <<>>
    /\ \/ pc = "add_instances"
       \/ pc = "done" /\ outcome = BadConfigurationException

C1_Witness ==
  /\ verb = "add_instances"
  /\ has_master(opts.ips)
  /\ HasMeta(opts.keyname)
  /\ pc = "done"
  /\ outcome = BadConfigurationException

\* The owner the UserAppServer reported for the application, if it did.
ReportedOwners ==
  {trace[i][2] : i \in {j \in 1..Len(trace) : trace[j][1] = "get_app_admin"}}
    \cap Users

\* C2: when the registry reports an owner of the application who is not the
\* resolved user, upload_app ends with AppScaleException and has called none
\* of reserve_app_id, copy_app_to_host, done_uploading and update.
C2_ForeignOwnerRejected ==
  (verb = "upload_app" /\ ReportedOwners \ {username} # {}) =>
    /\ pc = "done"
    /\ outcome = AppScaleException
    /\ ~Called("reserve_app_id")
    /\ ~Called("copy_app_to_host")
    /\ ~Called("done_uploading")
    /\ ~Called("update")

C2_Witness ==
  /\ verb = "upload_app"
  /\ ReportedOwners \ {username} # {}
  /\ pc = "done"
  /\ outcome = AppScaleException

\* C3: terminate_instances called for a keyname that has no locations file
\* ends at once with AppScaleException: no teardown call is made and nothing
\* on the disk changes.
C3_NothingToTerminate ==
  [][(pc = "terminate_instances" /\ ~HasMeta(opts.keyname)) =>
       /\ pc' = "done"
       /\ outcome' = AppScaleException
       /\ RemoteCalls' = <<>>
       /\ ~Called("cleanup_appscale_files")'
       /\ UNCHANGED disk]_vars

C3_Witness ==
  /\ verb = "terminate_instances"
  /\ pc = "done"
  /\ outcome = AppScaleException
  /\ ~HasMeta(opts.keyname)
  /\ \E k \in Keynames : HasMeta(k)

\* The teardown of terminate_instances was called.
TeardownCalled ==
  Called("terminate_cloud_infrastructure") \/ Called("terminate_virtualized_cluster")

\* C4: once terminate_instances has ended for a keyname whose metadata
\* run_instances had written, no metadata of the keyname is left, whether
\* the remote teardown returned or raised.
C4_NoMetadataAfterTerminate ==
  (verb = "terminate_instances" /\ pc = "done" /\ TeardownCalled) =>
    ~HasMeta(opts.keyname)

\* C5: describe_instances queries every address the controller listed, once
\* and in order; a query that raises gives a warning for that node and a
\* query that returns gives its status; and the verb returns.
StatusQueried == [i \in 1..Len(Calls("get_status")) |-> Calls("get_status")[i][2]]

\* Every get_status of the trace is followed by the status of its node, or
\* by the exception it raised and a warning for its node.
StatusReported ==
  \A i \in 1..Len(trace) :
    trace[i][1] = "get_status" =>
      \/ /\ i + 1 <= Len(trace)
         /\ trace[i + 1] = <<"log_status", trace[i][2]>>
      \/ /\ i + 2 <= Len(trace)
         /\ trace[i + 1] = <<"raised", "get_status">>
         /\ trace[i + 2] = <<"warn", trace[i][2]>>

C5_EveryNodeQueried ==
  (verb = "describe_instances" /\ Called("get_all_public_ips")
     /\ ~RaisedBy("get_all_public_ips")) =>
    /\ StatusReported
    /\ Len(Calls("warn")) = Len(Calls("raised"))
    /\ Len(Calls("warn")) + Len(Calls("log_status")) = Len(StatusQueried)
    /\ pc = "describe_loop" => StatusQueried = SubSeq(ips, 1, idx - 1)
    /\ pc # "describe_loop" =>
         /\ pc = "done"
         /\ outcome = Returned
         /\ StatusQueried = ips

\* Two of three nodes could not be reached, and describe_instances returned.
C5_Witness ==
  /\ verb = "describe_instances"
  /\ pc = "done"
  /\ outcome = Returned
  /\ Len(ips) = 3
  /\ Len(Calls("warn")) = 2
  /\ Len(Calls("log_status")) = 1

\* C6: when upload_app has ended, the directory it extracted a .tar.gz
\* application to is gone, however upload_app ended.
C6_ExtractedDirRemoved ==
  (verb = "upload_app" /\ pc = "done" /\ created_dir) =>
    file_location \notin tmpdirs

C8_FetchFailureNotFatal ==
  (verb = "gather_logs" /\ RaisedBy("scp_remote_to_local")) =>
    /\ Called("warn")
    /\ outcome \in {Running, Returned}
    /\ pc = "done" => Len(Calls("scp_remote_to_local")) = Len(ips)

\* C9: run_instances called without force for a keyname that has a
\* deployment running ends at once with a precondition error: the head node
\* is not started and the metadata stays as it is.
C9_AlreadyRunningRejected ==
  [][(pc = "run_instances" /\ HasMeta(opts.keyname) /\ ~opts.force) =>
       /\ pc' = "done"
       /\ outcome' = AppScaleException
       /\ ~Called("start_head_node")'
       /\ RemoteCalls' = <<>>
       /\ UNCHANGED disk]_vars

C9_Witness ==
  /\ verb = "run_instances"
  /\ HasMeta(opts.keyname)
  /\ ~opts.force
  /\ pc = "done"
  /\ outcome = AppScaleException

\* C10: when change_password raises, reset_password warns and exits the
\* process with status 1: the exception does not leave reset_password and
\* no success is reported.
C10_PasswordFailureExits ==
  (verb = "reset_password" /\ RaisedBy("change_password")) =>
    /\ pc = "done"
    /\ outcome = SystemExit1
    /\ Called("warn")
    /\ ~Called("success")

C10_Witness ==
  /\ verb = "reset_password"
  /\ RaisedBy("change_password")
  /\ pc = "done"
  /\ outcome = SystemExit1

\* C11: gather_logs called with a location that exists ends at once with
\* AppScaleException: no controller call, no fetch from a node, and nothing
\* made or changed on the disk.
C11_ExistingLocationRejected ==
  [][(pc = "gather_logs" /\ <<opts.location, "">> \in paths) =>
       /\ pc' = "done"
       /\ outcome' = AppScaleException
       /\ RemoteCalls' = <<>>
       /\ ~Called("os.mkdir")'
       /\ UNCHANGED disk]_vars

C11_Witness ==
  /\ verb = "gather_logs"
  /\ <<opts.location, "">> \in paths
  /\ HasMeta(opts.keyname)
  /\ pc = "done"
  /\ outcome = AppScaleException

\* C12: when the registry answers that the application does not exist,
\* remove_app ends with AppScaleException, confirmed or not, and neither
\* stop_app nor is_app_running is called.
C12_UnknownAppRejected ==
  (verb = "remove_app" /\ \E i \in 1..Len(trace) :
                             trace[i] = <<"does_app_exist", "False">>) =>
    /\ pc = "done"
    /\ outcome = AppScaleException
    /\ ~Called("stop_app")
    /\ ~Called("is_app_running")

C12_Witness ==
  /\ verb = "remove_app"
  /\ opts.confirm
  /\ \E i \in 1..Len(trace) : trace[i] = <<"does_app_exist", "False">>
  /\ pc = "done"
  /\ outcome = AppScaleException

(* ------------------ C13: the three metadata persists -------------------- *)

\* The calls of a run_instances invocation the order of the persists is
\* stated against.
RunMilestones ==
  SelectSeq(trace, LAMBDA e : e[1] \in {"start_head_node", "update_local_metadata",
                                        "get_uaserver_host",
                                        "sleep_until_port_is_open",
                                        "wait_for_machines_to_finish_loading"})

\* C13: in run_instances the local metadata is persisted after
\* start_head_node has returned and before get_uaserver_host is called, and
\* a run that succeeds persists it exactly three times: after the head node
\* has started, after the UserAppServer's port is open and after all nodes
\* have finished loading, the wait for the dashboard's port coming after the
\* last persist.
C13_MetadataPersistedInOrder ==
  verb = "run_instances" =>
    /\ \A k \in 1..Len(trace) :
         trace[k][1] = "get_uaserver_host" =>
           /\ HasMeta(opts.keyname)
           /\ get_login_host(opts.keyname) = public_ip
           /\ \E i, j \in 1..k :
                /\ i < j
                /\ trace[i][1] = "start_head_node"
                /\ trace[i + 1][1] # "raised"
                /\ trace[j] = <<"update_local_metadata", opts.keyname>>
    /\ (pc = "done" /\ outcome = Returned) =>
         RunMilestones =
           <<<<"start_head_node", "-">>,
             <<"update_local_metadata", opts.keyname>>,
             <<"get_uaserver_host", public_ip>>,
             <<"sleep_until_port_is_open", "uaserver">>,
             <<"update_local_metadata", opts.keyname>>,
             <<"wait_for_machines_to_finish_loading", public_ip>>,
             <<"update_local_metadata", opts.keyname>>,
             <<"sleep_until_port_is_open", "dashboard">>>>

C13_Witness ==
  /\ verb = "run_instances"
  /\ pc = "done"
  /\ outcome = Returned
  /\ Len(Calls("update_local_metadata")) = 3

(* ------------- C14: accounts only once the registry answers ------------- *)

\* The wait for the UserAppServer's port has failed.
RegistryWaitFailed ==
  \E i \in 1..Len(trace) - 1 :
    /\ trace[i] = <<"sleep_until_port_is_open", "uaserver">>
    /\ trace[i + 1] = <<"raised", "sleep_until_port_is_open">>

\* C14: run_instances calls create_user_accounts only after the wait for the
\* UserAppServer's port has returned, and set_admin_role only after
\* create_user_accounts has returned; when that wait fails the verb ends with
\* the exception and neither the accounts are created, nor the role granted,
\* nor the nodes waited for.
C14_AccountsAfterRegistryPort ==
  verb = "run_instances" =>
    /\ \A j \in 1..Len(trace) :
         trace[j][1] = "create_user_accounts" =>
           \E i \in 1..j :
             /\ trace[i] = <<"sleep_until_port_is_open", "uaserver">>
             /\ trace[i + 1][1] # "raised"
    /\ \A j \in 1..Len(trace) :
         trace[j][1] = "set_admin_role" =>
           \E i \in 1..j :
             /\ trace[i][1] = "create_user_accounts"
             /\ trace[i + 1][1] # "raised"
    /\ RegistryWaitFailed =>
         /\ pc = "done"
         /\ outcome = RemoteException
         /\ ~Called("create_user_accounts")
         /\ ~Called("set_admin_role")
         /\ ~Called("wait_for_machines_to_finish_loading")

C14_Witness ==
  /\ verb = "run_instances"
  /\ RegistryWaitFailed
  /\ pc = "done"

(* ------------------ C15: no rollback after a failure -------------------- *)

\* C15: when run_instances fails after its first persist, the metadata of
\* the keyname is still there and names the head node, and the verb has
\* called neither a teardown nor the removal of the keyname's files.
C15_NoRollbackAfterFailure ==
  (/\ verb = "run_instances"
   /\ pc = "done"
   /\ outcome # Returned
   /\ Called("update_local_metadata")) =>
    /\ HasMeta(opts.keyname)
    /\ get_login_host(opts.keyname) = public_ip
    /\ ~TeardownCalled
    /\ ~Called("cleanup_appscale_files")

C15_Witness ==
  /\ verb = "run_instances"
  /\ pc = "done"
  /\ outcome = RemoteException
  /\ RaisedBy("create_user_accounts")
  /\ HasMeta(opts.keyname)

(* ------------- C16: add_instances probes, then starts roles ------------- *)

AppReported(b) ==
  \E i \in 1..Len(trace) : trace[i] = <<"does_app_exist", Reported(b)>>

\* The calls of an upload_app invocation from the reservation on.
UploadSteps ==
  SelectSeq(trace, LAMBDA e : e[1] \in {"reserve_app_id", "copy_app_to_host",
                                        "done_uploading", "update", "time.sleep",
                                        "get_serving_info",
                                        "sleep_until_port_is_open", "return"})

\* C17: upload_app calls reserve_app_id if and only if the UserAppServer
\* has reported that the application does not exist, and before the copy; an
\* upload that succeeds has reserved the id if the application is new, copied
\* the application, called done_uploading, then update, slept the fixed
\* time only if the application existed, asked for the serving address,
\* waited for its port and returned that address, in this order.
C17_UploadOrder ==
  verb = "upload_app" =>
    /\ Called("reserve_app_id") => AppReported(FALSE)
    /\ \A j \in 1..Len(trace) :
         trace[j][1] = "copy_app_to_host" =>
           (AppReported(FALSE) <=>
              \E i \in 1..j : /\ trace[i] = <<"reserve_app_id", username>>
                              /\ trace[i + 1][1] # "raised")
    /\ (pc = "done" /\ outcome = Returned) =>
         UploadSteps =
           (IF AppReported(TRUE) THEN <<>>
                                 ELSE <<<<"reserve_app_id", username>>>>)
           \o <<<<"copy_app_to_host", "-">>, <<"done_uploading", "-">>,
                <<"update", "-">>>>
           \o (IF AppReported(TRUE) THEN <<<<"time.sleep", "20">>>> ELSE <<>>)
           \o <<<<"get_serving_info", serving>>,
                <<"sleep_until_port_is_open", serving>>,
                <<"return", serving>>>>

C17_Witness ==
  /\ verb = "upload_app"
  /\ pc = "done"
  /\ outcome = Returned
  /\ AppReported(FALSE)
  /\ Called("reserve_app_id")
  /\ serving \in ServingAddrs

(* ------------------ C19: who uploads the application -------------------- *)

\* The username upload_app has resolved comes from the prompt alone.
UsernamePrompted ==
  Calls("get_username_from_stdin") = <<<<"get_username_from_stdin", username>>>>

\* C19 as stated: upload_app takes the username from --email if it is given,
\* otherwise the default user under --test, otherwise from the prompt; with
\* both --email and --test the email is the username.
C19_EmailBeforeTestDefault ==
  (verb = "upload_app" /\ Called("does_user_exist")) =>
    /\ opts.email # "" =>
         username = opts.email /\ ~Called("get_username_from_stdin")
    /\ (opts.email = "" /\ opts.test) =>
         username = DEFAULT_USER /\ ~Called("get_username_from_stdin")
    /\ (opts.email = "" /\ ~opts.test) => UsernamePrompted

\* C19: upload_app takes the username from exactly one place: the default
\* user if --test is given, otherwise --email if it is given, otherwise the
\* prompt; with both --email and --test the default user is the username,
\* and it is the username the UserAppServer is asked about.
C19_TestDefaultBeforeEmail ==
  (verb = "upload_app" /\ Called("does_user_exist")) =>
    /\ opts.test =>
         username = DEFAULT_USER /\ ~Called("get_username_from_stdin")
    /\ (~opts.test /\ opts.email # "") =>
         username = opts.email /\ ~Called("get_username_from_stdin")
    /\ (~opts.test /\ opts.email = "") => UsernamePrompted
    /\ \A i \in 1..Len(trace) :
         trace[i][1] = "does_user_exist" => trace[i][2] = username

C19_Witness ==
  /\ verb = "upload_app"
  /\ opts.test
  /\ opts.email # ""
  /\ Called("does_user_exist")
  /\ username = DEFAULT_USER
  /\ username # opts.email

(* ------------------- C20: the admin's credentials ----------------------- *)

\* --admin_user and --admin_pass are both given (line 334).
AdminFlagsGiven == opts.admin_user # "" /\ opts.admin_pass # ""

\* C20: run_instances takes the admin's credentials from --admin_user and
\* --admin_pass if both are given, otherwise the defaults if --test is
\* given, otherwise from the prompt, which is never called when the flags or
\* --test are given; the credentials resolved are the ones passed to
\* create_user_accounts and to set_admin_role.
C20_AdminCredentialPrecedence ==
  verb = "run_instances" =>
    /\ (AdminFlagsGiven \/ opts.test) => ~Called("get_credentials")
    /\ Called("create_user_accounts") =>
         /\ AdminFlagsGiven => username = opts.admin_user
         /\ (~AdminFlagsGiven /\ opts.test) => username = DEFAULT_USER
         /\ (~AdminFlagsGiven /\ ~opts.test) =>
              Calls("get_credentials") = <<<<"get_credentials", username>>>>
         /\ \A i \in 1..Len(trace) :
              trace[i][1] \in {"create_user_accounts", "set_admin_role"} =>
                trace[i][2] = username

C20_Witness ==
  /\ verb = "run_instances"
  /\ AdminFlagsGiven
  /\ opts.test
  /\ Called("set_admin_role")
  /\ username = opts.admin_user
  /\ username # DEFAULT_USER

(* ----------------------- C18: the poll of remove_app -------------------- *)

\* remove_app has reported success right after the controller answered that
\* the application runs no more.
SuccessAfterStopped ==
  /\ Len(trace) >= 3
  /\ trace[Len(trace)] = <<"success", "-">>
  /\ trace[Len(trace) - 1] = <<"is_app_running", "False">>
  /\ ~app_running
  /\ Called("stop_app")

\* C18: after stop_app, remove_app reports success only when the last
\* answer of is_app_running was that the application runs no more; every
\* poll that finds it running is followed by a sleep of SLEEP_TIME and by
\* another poll, however many polls there have been, so that the verb never
\* returns while the controller keeps answering that the application runs,
\* and, the process being fair, ends once the controller answers that it
\* runs no more.
C18_PollsUntilStopped ==
  /\ []((verb = "remove_app" /\ Called("success")) => SuccessAfterStopped)
  /\ [](\A i \in 1..Len(trace) :
          trace[i] = <<"is_app_running", "True">> =>
            /\ i < Len(trace)
            /\ trace[i + 1] = <<"time.sleep", "SLEEP_TIME">>)
  /\ []((pc = "remove_poll" /\ app_running) =>
          (ENABLED remove_app_sleep /\ ~ENABLED remove_app_done))
  /\ [][(pc = "remove_poll" /\ app_running /\ app_running') =>
          (pc' = "remove_poll" \/ outcome' = RemoteException)]_vars
  /\ (pc = "remove_poll" /\ ~app_running) ~> (pc = "done")

C18_Witness ==
  /\ verb = "remove_app"
  /\ pc = "done"
  /\ outcome = Returned
  /\ SuccessAfterStopped
  /\ Len(Calls("time.sleep")) = MaxPolls

(* ------------- C21: the directory is made after the lookup -------------- *)

\* The lookup of the keyname's head node or secret key has failed.
LookupFailed == RaisedBy("get_login_host") \/ RaisedBy("get_secret_key")

\* C21: gather_logs makes the directory of the logs only after it has read
\* the head node's address and the secret key of the keyname from the local
\* metadata; when that lookup fails, for a keyname with no metadata,
\* gather_logs ends with the exception, has made no directory, and the
\* directory of the logs does not exist.
C21_NoDirectoryForBadKeyname ==
  verb = "gather_logs" =>
    /\ \A j \in 1..Len(trace) :
         trace[j] = <<"os.mkdir", opts.location>> =>
           \E h, s \in 1..j :
             /\ h < s
             /\ trace[h] = <<"get_login_host", opts.keyname>>
             /\ trace[s] = <<"get_secret_key", opts.keyname>>
             /\ trace[s + 1][1] # "raised"
    /\ LookupFailed =>
         /\ pc = "done"
         /\ outcome = RemoteException
         /\ ~Called("os.mkdir")
         /\ <<opts.location, "">> \notin paths
    /\ ~HasMeta(opts.keyname) =>
         /\ ~Called("os.mkdir")
         /\ pc = "done" => (LookupFailed \/ outcome = AppScaleException)

C21_Witness ==
  /\ verb = "gather_logs"
  /\ ~HasMeta(opts.keyname)
  /\ pc = "done"
  /\ outcome = RemoteException
  /\ RaisedBy("get_login_host")
  /\ <<opts.location, "">> \notin paths

====
